---- MODULE Spec2Model ----
(***************************************************************************)
(* State-machine model of the sentiric-orchestrator node agent.            *)
(*                                                                         *)
(*  - the update engine: DockerAdapter::check_and_update_service reached   *)
(*    through update_handler / force_update_service (api/routes.rs,        *)
(*    adapters/docker.rs) and perform_update reached through               *)
(*    manual_update_handler (main.rs), both against one container runtime; *)
(*  - node liveness: the monitor task, the gRPC report_node_status         *)
(*    handler and the node watchdog task of main.rs, sharing nodes_cache   *)
(*    and the broadcast sender tx.                                         *)
(*                                                                         *)
(* Every await point of an async function is a separate step, so that      *)
(* concurrent requests interleave exactly where the executor can switch.   *)
(* Strings that the code inspects (service and node names) are sequences   *)
(* of one-character strings; time is in milliseconds.                      *)
(***************************************************************************)
EXTENDS Integers, Sequences, FiniteSets, TLC

(* ---------------------------------------------------------------------- *)
(* Bounds of the model                                                     *)
(* ---------------------------------------------------------------------- *)

\* number of update requests (HTTP calls) a behaviour may contain
MaxReqs == 2
\* most items a container's log stream yields to one connection
MaxLogItems == 4
\* longest image-pull progress stream, in items
MaxPullItems == 1
\* the clock stops advancing once it has reached this many milliseconds
MaxNow == 62000
\* number of report_node_status calls that may be in flight together
MaxInflight == 2
\* capacity of the broadcast channel (1000 in main.rs)
BusCapacity == 2
\* at most this many messages are stored on the channel
MaxEvents == 3

\* scanner ticks between two update checks (the default)
update_check_ticks == 12

(* ---------------------------------------------------------------------- *)
(* Strings                                                                 *)
(* ---------------------------------------------------------------------- *)

\* the needle of the self-update protection
ORCHESTRATOR == <<"o","r","c","h","e","s","t","r","a","t","o","r">>

\* str::contains
Contains(s, sub) ==
    \E i \in 1..(Len(s) - Len(sub) + 1) : SubSeq(s, i, i + Len(sub) - 1) = sub

\* an ordinary service, the agent's own container, a container whose
\* inspect carries no config.image, and a name no container has
SvcA == <<"s","v","c","-","A">>
SelfSvc == ORCHESTRATOR \o <<"-","a","g","e","n","t">>
NoImgSvc == <<"r","a","w">>
GhostSvc == <<"g","o","n","e">>
Services == {SvcA, SelfSvc, NoImgSvc, GhostSvc}

(* ---------------------------------------------------------------------- *)
(* State                                                                   *)
(* ---------------------------------------------------------------------- *)

VARIABLES
    containers,     \* the container runtime: name -> container or Absent
    local_image,    \* the runtime's image store: reference -> image id
    registry,       \* the registry: reference -> id of the published image
    req,            \* the update requests: connection -> position, captured data
    started,        \* number of update requests received so far
    nodes_cache,    \* AppState.nodes_cache: key -> LocalNodeStats or NoNode
    now,            \* chrono::Utc::now(), in milliseconds
    monitor,        \* the monitor task: position and the stats it built
    reports,        \* report_node_status calls between building and inserting:
                    \* the node_name of the request, node_id and the stats
    tx_sent,        \* what the latest step sent on AppState.tx, in order
    last,           \* the latest step: the task that took it, the status
                    \* changes it made in nodes_cache, what it saw and
                    \* answered
    bus,            \* AppState.tx: every message the channel has stored
    subs,           \* the /ws connections: receiver and handler position
    auto_pilot_config,  \* AppState.auto_pilot_config: name -> enabled
    services_cache,     \* AppState.services_cache: the latest snapshot
    scanner,        \* the scanner task: position, enumeration, snapshot
    monitor_upstream,   \* UPSTREAM_ORCHESTRATOR_URL as main read it
    export,         \* an /api/export/llm request: position, the entry it
                    \* is at, the short ids whose logs it has fetched
    log_socket      \* a /ws/logs/:id connection: position, the item in
                    \* hand, what the stream yielded, what the client got

updateVars == <<containers, local_image, registry, req, started>>
nodeVars == <<nodes_cache, now, monitor, reports, tx_sent, last>>
busVars == <<bus, subs>>
scanVars == <<auto_pilot_config, services_cache, scanner>>
restVars == <<monitor_upstream, export, log_socket>>
vars == <<containers, local_image, registry, req, started,
          nodes_cache, now, monitor, reports, tx_sent, last,
          bus, subs, auto_pilot_config, services_cache, scanner,
          monitor_upstream, export, log_socket>>

(* ---------------------------------------------------------------------- *)
(* The container runtime (bollard::Docker), as the update engine sees it   *)
(* ---------------------------------------------------------------------- *)

ImgA == "ex/A:latest"
ImgO == "ex/orchestrator:latest"
Images == {ImgA, ImgO}
\* Option::None of inspect.config.image
NoImage == "<none>"
Absent == [image_id |-> 0, image |-> NoImage, env |-> <<>>, labels |-> <<>>,
           host_config |-> <<>>, networks |-> <<>>, running |-> FALSE]

\* a running container; tag distinguishes the settings of one container
\* from those of another
Container(id, img, tag) ==
    [image_id |-> id, image |-> img, env |-> <<"env", tag>>,
     labels |-> <<"labels", tag>>, host_config |-> <<"host", tag>>,
     networks |-> <<"net", tag>>, running |-> TRUE]

\* the connections on which update requests arrive; a connection carries
\* one request at a time, so two requests can be in progress together
Reqs == {1, 2}

NoConfig == [image |-> NoImage, env |-> <<>>, labels |-> <<>>,
             host_config |-> <<>>, networking_config |-> <<>>]
NoRet == [ok |-> FALSE, val |-> "<pending>"]

\* A request: where it stands (pc), what it captured (inspect, image_name,
\* is_self, config), what it returns (ret) and answers (status, body);
\* and, as a record of the run, the calls it made on the runtime (calls),
\* how each call that returned ended (outs), the items the pull stream
\* yielded (stream) and the id of the image the pull left in the store
\* (pulled_id, 0 before the pull ends).
IdleReq ==
    [kind |-> "none", svc |-> <<>>, pc |-> "idle", inspect |-> Absent,
     image_name |-> NoImage, is_self |-> FALSE, stream |-> <<>>,
     pulled_id |-> 0, config |-> NoConfig, calls |-> <<>>, outs |-> <<>>,
     ret |-> NoRet, status |-> 0, body |-> ""]

\* one call on the runtime, as recorded in the calling request
Call(op, name, arg) == [op |-> op, name |-> name, arg |-> arg]
NoArg == [none |-> TRUE]
Issue(q, call) == [q EXCEPT !.calls = Append(@, call)]
Returned(q, ok) == [q EXCEPT !.outs = Append(@, IF ok THEN "ok" ELSE "err")]

Ok(v) == [ok |-> TRUE, val |-> v]
Err(e) == [ok |-> FALSE, val |-> e]

\* the record of a step: the task, the status changes, and what the step
\* saw and answered (NoInfo where there is nothing to record)
NoInfo == [none |-> TRUE]
Did(task, flips) == [task |-> task, flips |-> flips, info |-> NoInfo]

\* a step of the update engine sends nothing on tx and leaves the node
\* state alone
NodesIdle ==
    /\ tx_sent' = <<>>
    /\ last' = Did("update", {})
    /\ UNCHANGED <<nodes_cache, now, monitor, reports>>
    /\ UNCHANGED <<busVars, scanVars, restVars>>

\* inspect_container: the container of that name, or a 404
rt_exists(name) == containers[name] # Absent

\* stop_container: stops an existing container unless the call fails
rt_stop_ok(name, fails) == ~fails /\ rt_exists(name)
rt_stop(name, fails) ==
    IF rt_stop_ok(name, fails)
    THEN [containers EXCEPT ![name].running = FALSE]
    ELSE containers

\* remove_container(force): frees the name unless the call fails
rt_remove_ok(name, fails) == ~fails /\ rt_exists(name)
rt_remove(name, fails) ==
    IF rt_remove_ok(name, fails)
    THEN [containers EXCEPT ![name] = Absent]
    ELSE containers

\* create_container succeeds only for a free name and a known image
rt_create_ok(name, config, fails) ==
    ~fails /\ ~rt_exists(name) /\ config.image \in Images
rt_create(name, config, fails) ==
    IF rt_create_ok(name, config, fails)
    THEN [containers EXCEPT ![name] =
            [image_id |-> local_image[config.image], image |-> config.image,
             env |-> config.env, labels |-> config.labels,
             host_config |-> config.host_config,
             networks |-> config.networking_config, running |-> FALSE]]
    ELSE containers

\* start_container succeeds only on an existing container
rt_start_ok(name, fails) == ~fails /\ rt_exists(name)
rt_start(name, fails) ==
    IF rt_start_ok(name, fails)
    THEN [containers EXCEPT ![name].running = TRUE]
    ELSE containers

\* create_image: a pull that runs to its end leaves the registry's image
\* in the store
rt_pull(image) == [local_image EXCEPT ![image] = registry[image]]

(* ---------------------------------------------------------------------- *)
(* api/routes.rs, adapters/docker.rs: POST /api/update                     *)
(* ---------------------------------------------------------------------- *)

\* force_update_service: the Result<String> it makes of
\* check_and_update_service's Result<bool>
force_update_service(res) ==
    IF res.ok
    THEN Ok(IF res.val = "true" THEN "Updated."
            ELSE "Already up to date, restarted.")
    ELSE res

\* update_handler: the response it makes of force_update_service's result
update_handler(res) ==
    IF res.ok THEN [status |-> 200, body |-> res.val]
    ELSE [status |-> 500, body |-> res.val]

\* manual_update_handler: the response it makes of perform_update's result
manual_update_handler(res) ==
    IF res.ok THEN [status |-> 200, body |-> res.val]
    ELSE [status |-> 500, body |-> res.val]

\* the update function returns res and the handler answers
Return(q, res) ==
    LET out == IF q.kind = "update_handler"
               THEN update_handler(force_update_service(res))
               ELSE manual_update_handler(res)
    IN [q EXCEPT !.pc = "done", !.ret = res,
                 !.status = out.status, !.body = out.body]

\* a request arrives on the first free connection
CanStart(r) ==
    /\ started < MaxReqs
    /\ req[r].pc = "idle"
    /\ \A p \in Reqs : p < r => req[p].pc # "idle"

\* the response has been written: the connection is free again
respond(r) ==
    /\ req[r].pc = "done"
    /\ req' = [req EXCEPT ![r] = IdleReq]
    /\ UNCHANGED <<containers, local_image, registry, started>>
    /\ NodesIdle

\* the Config both update functions build from the inspect response
BuildConfig(image_name, inspect) ==
    [image |-> image_name, env |-> inspect.env, labels |-> inspect.labels,
     host_config |-> inspect.host_config,
     networking_config |-> inspect.networks]

\* check_and_update_service up to the pull: inspect, image name, is_self
check_and_update_service_inspect(r, svc) ==
    /\ CanStart(r)
    /\ LET q0 == Returned(Issue([IdleReq EXCEPT !.kind = "update_handler",
                                                !.svc = svc],
                                Call("inspect_container", svc, NoArg)),
                          rt_exists(svc))
           inspect == containers[svc]
       IN req' = [req EXCEPT ![r] =
            IF ~rt_exists(svc)
            THEN Return(q0, Err("Service not found"))
            ELSE IF inspect.image = NoImage
            THEN Return(q0, Err("No image defined"))
            ELSE Issue([q0 EXCEPT !.pc = "pull", !.inspect = inspect,
                                  !.image_name = inspect.image,
                                  !.is_self = Contains(svc, ORCHESTRATOR)],
                       Call("create_image", inspect.image, NoArg))]
    /\ started' = started + 1
    /\ UNCHANGED <<containers, local_image, registry>>
    /\ NodesIdle

\* the pull stream yields a progress item: the loop goes on
check_and_update_service_pull_item(r) ==
    /\ req[r].kind = "update_handler" /\ req[r].pc = "pull"
    /\ Len(req[r].stream) < MaxPullItems
    /\ req' = [req EXCEPT ![r].stream = Append(@, "item")]
    /\ UNCHANGED <<containers, local_image, registry, started>>
    /\ NodesIdle

\* the error item is dropped like a progress item and the protocol goes on
pull_error_ignored(q) ==
    Issue([q EXCEPT !.pc = "inspect_image"],
          Call("inspect_image", q.image_name, NoArg))

\* what check_and_update_service does on an error item of the pull stream
check_and_update_service_on_pull_error(q) ==
    Return(q, Err("Registry error"))

\* the pull stream yields an error item
check_and_update_service_pull_err(r) ==
    /\ req[r].kind = "update_handler" /\ req[r].pc = "pull"
    /\ req' = [req EXCEPT ![r] =
                  check_and_update_service_on_pull_error(
                      Returned([@ EXCEPT !.stream = Append(@, "error")],
                               FALSE))]
    /\ UNCHANGED <<containers, local_image, registry, started>>
    /\ NodesIdle

\* the pull stream ends: the image is in the store; inspect it
check_and_update_service_pull_end(r) ==
    /\ req[r].kind = "update_handler" /\ req[r].pc = "pull"
    /\ req[r].image_name \in Images
    /\ local_image' = rt_pull(req[r].image_name)
    /\ req' = [req EXCEPT ![r] =
                  Issue(Returned([@ EXCEPT !.pc = "inspect_image",
                                           !.pulled_id =
                                               registry[req[r].image_name]],
                                 TRUE),
                        Call("inspect_image", req[r].image_name, NoArg))]
    /\ UNCHANGED <<containers, registry, started>>
    /\ NodesIdle

\* inspect_image fails: the ? operator returns its error
check_and_update_service_inspect_image_err(r) ==
    /\ req[r].kind = "update_handler" /\ req[r].pc = "inspect_image"
    /\ req' = [req EXCEPT ![r] = Return(Returned(@, FALSE),
                                        Err("Docker error"))]
    /\ UNCHANGED <<containers, local_image, registry, started>>
    /\ NodesIdle

\* inspect_image answers: compare, self-update protection, build the
\* config, call stop_container(t = 10)
check_and_update_service_compare(r) ==
    /\ req[r].kind = "update_handler" /\ req[r].pc = "inspect_image"
    /\ LET q == Returned(req[r], TRUE)
           current_image_id == q.inspect.image_id
           new_image_id == local_image[q.image_name]
       IN req' = [req EXCEPT ![r] =
            IF current_image_id = new_image_id
            THEN Return(q, Ok("false"))
            ELSE IF q.is_self
            THEN Return(q, Ok("true"))
            ELSE Issue([q EXCEPT !.pc = "stop",
                                 !.config = BuildConfig(q.image_name,
                                                        q.inspect)],
                       Call("stop_container", q.svc, [t |-> 10]))]
    /\ UNCHANGED <<containers, local_image, registry, started>>
    /\ NodesIdle

\* stop_container returns, its result is dropped; call remove_container
check_and_update_service_stop(r) ==
    /\ req[r].kind = "update_handler" /\ req[r].pc = "stop"
    /\ \E fails \in BOOLEAN :
        /\ containers' = rt_stop(req[r].svc, fails)
        /\ req' = [req EXCEPT ![r] =
                      Issue(Returned([@ EXCEPT !.pc = "remove"],
                                     rt_stop_ok(req[r].svc, fails)),
                            Call("remove_container", req[r].svc,
                                 [force |-> TRUE]))]
    /\ UNCHANGED <<local_image, registry, started>>
    /\ NodesIdle

\* remove_container returns, its result is dropped; call create_container
check_and_update_service_remove(r) ==
    /\ req[r].kind = "update_handler" /\ req[r].pc = "remove"
    /\ \E fails \in BOOLEAN :
        /\ containers' = rt_remove(req[r].svc, fails)
        /\ req' = [req EXCEPT ![r] =
                      Issue(Returned([@ EXCEPT !.pc = "create"],
                                     rt_remove_ok(req[r].svc, fails)),
                            Call("create_container", req[r].svc,
                                 req[r].config))]
    /\ UNCHANGED <<local_image, registry, started>>
    /\ NodesIdle

\* what check_and_update_service does when create_container has returned
check_and_update_service_created(q, ok) ==
    IF ok
    THEN Issue([q EXCEPT !.pc = "start"],
               Call("start_container", q.svc, NoArg))
    ELSE Return(q, Err("Docker error"))

\* create_container returns: ? on an error, else call start_container
check_and_update_service_create(r) ==
    /\ req[r].kind = "update_handler" /\ req[r].pc = "create"
    /\ \E fails \in BOOLEAN :
        LET ok == rt_create_ok(req[r].svc, req[r].config, fails)
        IN /\ containers' = rt_create(req[r].svc, req[r].config, fails)
           /\ req' = [req EXCEPT ![r] =
                         check_and_update_service_created(Returned(@, ok),
                                                          ok)]
    /\ UNCHANGED <<local_image, registry, started>>
    /\ NodesIdle

\* the result of start_container is dropped, as that of stop_container is
start_result_dropped(q, ok) == Return(q, Ok("true"))

\* what check_and_update_service does when start_container has returned
check_and_update_service_started(q, ok) ==
    IF ok THEN Return(q, Ok("true")) ELSE Return(q, Err("Docker error"))

\* start_container returns: ? on an error, else Ok(true)
check_and_update_service_start(r) ==
    /\ req[r].kind = "update_handler" /\ req[r].pc = "start"
    /\ \E fails \in BOOLEAN :
        LET ok == rt_start_ok(req[r].svc, fails)
        IN /\ containers' = rt_start(req[r].svc, fails)
           /\ req' = [req EXCEPT ![r] =
                         check_and_update_service_started(Returned(@, ok),
                                                          ok)]
    /\ UNCHANGED <<local_image, registry, started>>
    /\ NodesIdle

(* ---------------------------------------------------------------------- *)
(* main.rs: POST /api/update                                               *)
(* ---------------------------------------------------------------------- *)

\* Option<String>::unwrap_or_default
unwrap_or_default(image) == IF image = NoImage THEN "" ELSE image

\* perform_update up to the pull: inspect and the image name
perform_update_inspect(r, svc) ==
    /\ CanStart(r)
    /\ LET q0 == Returned(Issue([IdleReq EXCEPT
                                    !.kind = "manual_update_handler",
                                    !.svc = svc],
                                Call("inspect_container", svc, NoArg)),
                          rt_exists(svc))
           inspect == containers[svc]
           image_name == unwrap_or_default(inspect.image)
       IN req' = [req EXCEPT ![r] =
            IF ~rt_exists(svc)
            THEN Return(q0, Err("Docker error"))
            ELSE Issue([q0 EXCEPT !.pc = "pull", !.inspect = inspect,
                                  !.image_name = image_name],
                       Call("create_image", image_name, NoArg))]
    /\ started' = started + 1
    /\ UNCHANGED <<containers, local_image, registry>>
    /\ NodesIdle

\* the pull stream yields a progress item: the loop goes on
perform_update_pull_item(r) ==
    /\ req[r].kind = "manual_update_handler" /\ req[r].pc = "pull"
    /\ Len(req[r].stream) < MaxPullItems
    /\ req' = [req EXCEPT ![r].stream = Append(@, "item")]
    /\ UNCHANGED <<containers, local_image, registry, started>>
    /\ NodesIdle

\* the pull stream yields an error item
perform_update_pull_err(r) ==
    /\ req[r].kind = "manual_update_handler" /\ req[r].pc = "pull"
    /\ req' = [req EXCEPT ![r] =
                  Return(Returned([@ EXCEPT !.stream = Append(@, "error")],
                                  FALSE),
                         Err("Pull failed"))]
    /\ UNCHANGED <<containers, local_image, registry, started>>
    /\ NodesIdle

\* the pull stream ends: build the config, call stop_container(t = 5)
perform_update_pull_end(r) ==
    /\ req[r].kind = "manual_update_handler" /\ req[r].pc = "pull"
    /\ req[r].image_name \in Images
    /\ local_image' = rt_pull(req[r].image_name)
    /\ req' = [req EXCEPT ![r] =
                  Issue(Returned([@ EXCEPT
                                     !.pc = "stop",
                                     !.pulled_id = registry[req[r].image_name],
                                     !.config = BuildConfig(req[r].image_name,
                                                            req[r].inspect)],
                                 TRUE),
                        Call("stop_container", req[r].svc, [t |-> 5]))]
    /\ UNCHANGED <<containers, registry, started>>
    /\ NodesIdle

\* stop_container returns, its result is dropped; call remove_container
perform_update_stop(r) ==
    /\ req[r].kind = "manual_update_handler" /\ req[r].pc = "stop"
    /\ \E fails \in BOOLEAN :
        /\ containers' = rt_stop(req[r].svc, fails)
        /\ req' = [req EXCEPT ![r] =
                      Issue(Returned([@ EXCEPT !.pc = "remove"],
                                     rt_stop_ok(req[r].svc, fails)),
                            Call("remove_container", req[r].svc,
                                 [force |-> TRUE]))]
    /\ UNCHANGED <<local_image, registry, started>>
    /\ NodesIdle

\* remove_container returns, its result is dropped; call create_container
perform_update_remove(r) ==
    /\ req[r].kind = "manual_update_handler" /\ req[r].pc = "remove"
    /\ \E fails \in BOOLEAN :
        /\ containers' = rt_remove(req[r].svc, fails)
        /\ req' = [req EXCEPT ![r] =
                      Issue(Returned([@ EXCEPT !.pc = "create"],
                                     rt_remove_ok(req[r].svc, fails)),
                            Call("create_container", req[r].svc,
                                 req[r].config))]
    /\ UNCHANGED <<local_image, registry, started>>
    /\ NodesIdle

\* create_container returns: "Create failed" on an error, else call
\* start_container
perform_update_create(r) ==
    /\ req[r].kind = "manual_update_handler" /\ req[r].pc = "create"
    /\ \E fails \in BOOLEAN :
        LET ok == rt_create_ok(req[r].svc, req[r].config, fails)
        IN /\ containers' = rt_create(req[r].svc, req[r].config, fails)
           /\ req' = [req EXCEPT ![r] =
                IF ok
                THEN Issue(Returned([@ EXCEPT !.pc = "start"], TRUE),
                           Call("start_container", req[r].svc, NoArg))
                ELSE Return(Returned(@, FALSE), Err("Create failed"))]
    /\ UNCHANGED <<local_image, registry, started>>
    /\ NodesIdle

\* start_container returns: "Start failed" on an error, else Ok
perform_update_start(r) ==
    /\ req[r].kind = "manual_update_handler" /\ req[r].pc = "start"
    /\ \E fails \in BOOLEAN :
        LET ok == rt_start_ok(req[r].svc, fails)
        IN /\ containers' = rt_start(req[r].svc, fails)
           /\ req' = [req EXCEPT ![r] =
                IF ok
                THEN Return(Returned(@, TRUE), Ok("updated successfully."))
                ELSE Return(Returned(@, FALSE), Err("Start failed"))]
    /\ UNCHANGED <<local_image, registry, started>>
    /\ NodesIdle

(* ---------------------------------------------------------------------- *)
(* The update engine: initial state and steps                              *)
(* ---------------------------------------------------------------------- *)

\* the containers of the host when the agent starts
InitialContainers ==
    [n \in Services |->
        CASE n = SvcA -> Container(1, ImgA, "A")
          [] n = SelfSvc -> Container(1, ImgO, "O")
          [] n = NoImgSvc -> Container(1, NoImage, "R")
          [] OTHER -> Absent]

\* every image is in the store; the registry may hold a newer one
InitUpdate ==
    /\ containers = InitialContainers
    /\ local_image = [i \in Images |-> 1]
    /\ registry \in [Images -> {1, 2}]
    /\ req = [r \in Reqs |-> IdleReq]
    /\ started = 0

UpdateNext ==
    \/ \E r \in Reqs, svc \in Services : check_and_update_service_inspect(r, svc)
    \/ \E r \in Reqs, svc \in Services : perform_update_inspect(r, svc)
    \/ \E r \in Reqs : check_and_update_service_pull_item(r)
    \/ \E r \in Reqs : check_and_update_service_pull_err(r)
    \/ \E r \in Reqs : check_and_update_service_pull_end(r)
    \/ \E r \in Reqs : check_and_update_service_inspect_image_err(r)
    \/ \E r \in Reqs : check_and_update_service_compare(r)
    \/ \E r \in Reqs : check_and_update_service_stop(r)
    \/ \E r \in Reqs : check_and_update_service_remove(r)
    \/ \E r \in Reqs : check_and_update_service_create(r)
    \/ \E r \in Reqs : check_and_update_service_start(r)
    \/ \E r \in Reqs : perform_update_pull_item(r)
    \/ \E r \in Reqs : perform_update_pull_err(r)
    \/ \E r \in Reqs : perform_update_pull_end(r)
    \/ \E r \in Reqs : perform_update_stop(r)
    \/ \E r \in Reqs : perform_update_remove(r)
    \/ \E r \in Reqs : perform_update_create(r)
    \/ \E r \in Reqs : perform_update_start(r)
    \/ \E r \in Reqs : respond(r)

(* ---------------------------------------------------------------------- *)
(* main.rs: node liveness                                                  *)
(* ---------------------------------------------------------------------- *)

Lower == <<"a","b","c","d","e","f","g","h","i","j","k","l","m",
           "n","o","p","q","r","s","t","u","v","w","x","y","z">>
Upper == <<"A","B","C","D","E","F","G","H","I","J","K","L","M",
           "N","O","P","Q","R","S","T","U","V","W","X","Y","Z">>

\* String::to_uppercase
to_uppercase(s) ==
    [i \in 1..Len(s) |->
        IF \E k \in 1..Len(Lower) : Lower[k] = s[i]
        THEN Upper[CHOOSE k \in 1..Len(Lower) : Lower[k] = s[i]]
        ELSE s[i]]

\* NODE_NAME as configured, and the node names reports arrive with
EnvNodeName == <<"l","o","c","a","l">>
ReportNames == { <<"e","d","g","e","1">>, <<"L","o","c","a","l">> }

\* the name is kept as the environment gives it
node_name_as_in_env == EnvNodeName

\* node_name of main: the configured name, uppercased
node_name == to_uppercase(EnvNodeName)

NodeKeys == {node_name} \cup {to_uppercase(n) : n \in ReportNames}

\* DateTime::to_rfc3339 of a time in milliseconds: whole seconds and
\* the fraction
to_rfc3339(t) == [secs |-> t \div 1000, frac |-> t % 1000]

\* DateTime::parse_from_rfc3339, back to milliseconds
parse_from_rfc3339(s) == s.secs * 1000 + s.frac

\* TimeDelta::num_seconds: whole seconds, truncated toward zero
num_seconds(d) == IF d >= 0 THEN d \div 1000 ELSE -((-d) \div 1000)

\* seconds of silence after which the watchdog declares a node OFFLINE
OfflineAfterSecs == 30

NoNode == [name |-> <<>>, last_seen |-> to_rfc3339(0), status |-> "NONE"]

\* the LocalNodeStats both writers build: the usage figures are carried
\* through unread and are left out
LocalNodeStats(name, t) ==
    [name |-> name, last_seen |-> to_rfc3339(t), status |-> "ONLINE"]

node_update(stats) == [type |-> "node_update", data |-> stats]
nodes_list_update(list) == [type |-> "nodes_list_update", data |-> list]

\* HashMap::values of nodes_cache
values(nodes) == {nodes[k] : k \in {k \in NodeKeys : nodes[k] # NoNode}}

\* the status changes between two values of nodes_cache
Flips(old, new) ==
    {[key |-> k, from |-> old[k].status, to |-> new[k].status] :
        k \in {k \in NodeKeys : /\ old[k] # NoNode /\ new[k] # NoNode
                                /\ old[k].status # new[k].status}}

\* the /ws connections
Subs == {1, 2}

\* broadcast::channel(capacity): the buffer holds the capacity rounded up
\* to a power of two
RECURSIVE next_power_of_two(_)
next_power_of_two(n) == IF n <= 1 THEN 1 ELSE 2 * next_power_of_two((n + 1) \div 2)
buffer_len == next_power_of_two(BusCapacity)

\* the live Receiver handles of the channel
Receivers == {c \in Subs : subs[c].rx = "open"}

\* Sender::send succeeds iff there is a receiver
send_ok == Receivers # {}

\* tx.send of each message in turn: stored iff there is a receiver;
\* nothing is sent where msgs is empty
tx_send(msgs) ==
    /\ tx_sent' = msgs
    /\ send_ok => Len(bus) + Len(msgs) <= MaxEvents
    /\ bus' = IF send_ok THEN bus \o msgs ELSE bus

\* the clock moves on
AdvanceSteps == {30000, 30500, 31000}
Advance(d) ==
    /\ now + d <= MaxNow
    /\ now' = now + d
    /\ tx_send(<<>>)
    /\ last' = Did("clock", {})
    /\ UNCHANGED <<nodes_cache, monitor, reports>>
    /\ UNCHANGED <<updateVars, scanVars, subs, restVars>>

\* monitor task: sample and build stats, stamped with the current time
monitor_sample ==
    /\ monitor.pc = "sample"
    /\ monitor' = [pc |-> "insert", stats |-> LocalNodeStats(node_name, now)]
    /\ tx_send(<<>>)
    /\ last' = Did("monitor_sample", {})
    /\ UNCHANGED <<nodes_cache, now, reports>>
    /\ UNCHANGED <<updateVars, scanVars, subs, restVars>>

\* monitor task: lock nodes_cache, insert, unlock
monitor_insert ==
    /\ monitor.pc = "insert"
    /\ nodes_cache' = [nodes_cache EXCEPT ![node_name] = monitor.stats]
    /\ monitor' = [monitor EXCEPT !.pc = "publish"]
    /\ tx_send(<<>>)
    /\ last' = Did("monitor", Flips(nodes_cache, nodes_cache'))
    /\ UNCHANGED <<now, reports>>
    /\ UNCHANGED <<updateVars, scanVars, subs, restVars>>

\* Option::None of monitor_upstream, and an upstream address
NoUrl == "<none>"
UpstreamUrls == {"http://master:11081"}

\* monitor task: if let Some(url) = &monitor_upstream { connect .. }; where
\* there is no address the task goes to sleep and samples again
monitor_after_publish(m, upstream) ==
    IF upstream = NoUrl THEN [pc |-> "sample", stats |-> NoNode]
    ELSE [m EXCEPT !.pc = "connect"]

\* monitor task: the lock released, send node_update with the stats built
monitor_publish ==
    /\ monitor.pc = "publish"
    /\ tx_send(<<node_update(monitor.stats)>>)
    /\ monitor' = monitor_after_publish(monitor, monitor_upstream)
    /\ last' = Did("monitor_publish", {})
    /\ UNCHANGED <<nodes_cache, now, reports>>
    /\ UNCHANGED <<updateVars, scanVars, subs, restVars>>

\* an upstream failure ends the monitor task
upstream_error_ends_task(ok) == IF ok THEN "sample" ELSE "stopped"

\* monitor task: after the upstream attempt, failed (debug!) or not, the
\* task sleeps and samples again
monitor_after_upstream(ok) == "sample"

\* monitor task: OrchestratorServiceClient::connect(url) returns
monitor_connect(ok) ==
    /\ monitor.pc = "connect"
    /\ monitor' = IF ok THEN [monitor EXCEPT !.pc = "report"]
                  ELSE [pc |-> monitor_after_upstream(ok), stats |-> NoNode]
    /\ tx_send(<<>>)
    /\ last' = [Did("monitor_connect", {}) EXCEPT
                  !.info = [ok |-> ok, url |-> monitor_upstream]]
    /\ UNCHANGED <<nodes_cache, now, reports>>
    /\ UNCHANGED <<updateVars, scanVars, subs, restVars>>

\* monitor task: client.report_node_status(req) returns; req carries the
\* name and last_seen of the stats and the status "ONLINE"
monitor_report(ok) ==
    /\ monitor.pc = "report"
    /\ monitor' = [pc |-> monitor_after_upstream(ok), stats |-> NoNode]
    /\ tx_send(<<>>)
    /\ last' = [Did("monitor_report", {}) EXCEPT
                  !.info = [ok |-> ok, url |-> monitor_upstream,
                            req |-> [node_name |-> monitor.stats.name,
                                     timestamp |-> monitor.stats.last_seen,
                                     status |-> "ONLINE"]]]
    /\ UNCHANGED <<nodes_cache, now, reports>>
    /\ UNCHANGED <<updateVars, scanVars, subs, restVars>>

\* NodeStatus, the request of report_node_status: the usage figures are
\* carried through unread and are left out
ReportStatuses == {"ONLINE", "OFFLINE"}
NodeStatus(name, status) == [node_name |-> name, status |-> status]

\* the stats copy the status the reporting node sent
stats_with_reported_status(request, t) ==
    [LocalNodeStats(to_uppercase(request.node_name), t)
        EXCEPT !.status = request.status]

\* the stats keep the name as the report gave it
stats_named_as_reported(request, t) ==
    LocalNodeStats(request.node_name, t)

\* report_node_status: the stats built from a request at time t
report_node_status_stats(request, t) ==
    LocalNodeStats(to_uppercase(request.node_name), t)

\* report_node_status: uppercase the name and build stats, stamped with
\* the current time
report_node_status_build(request) ==
    /\ Cardinality(reports) < MaxInflight
    /\ reports' = reports \cup
                    {[node_name |-> request.node_name,
                      node_id |-> to_uppercase(request.node_name),
                      stats |-> report_node_status_stats(request, now)]}
    /\ tx_send(<<>>)
    /\ last' = Did("report_build", {})
    /\ UNCHANGED <<nodes_cache, now, monitor>>
    /\ UNCHANGED <<updateVars, scanVars, subs, restVars>>

\* the entry goes out as a cluster_update
report_publishes_cluster_update(stats) ==
    <<[type |-> "cluster_update", data |-> stats]>>

\* what report_node_status sends once the entry is in the cache
report_node_status_publish(stats) == <<node_update(stats)>>

\* the acknowledgement follows the result of the send
ack_follows_send(sent) == [success |-> sent]

\* report_node_status: the Ack returned, the result of the send dropped
report_node_status_ack(sent) == [success |-> TRUE]

\* report_node_status: lock nodes_cache, insert, send node_update, Ack
report_node_status_insert(call) ==
    /\ call \in reports
    /\ nodes_cache' = [nodes_cache EXCEPT ![call.node_id] = call.stats]
    /\ tx_send(report_node_status_publish(call.stats))
    /\ reports' = reports \ {call}
    /\ last' = [Did("report", Flips(nodes_cache, nodes_cache')) EXCEPT
                  !.info = [node_name |-> call.node_name,
                            prev |-> nodes_cache[call.node_id],
                            sent |-> send_ok,
                            ack |-> report_node_status_ack(send_ok)]]
    /\ UNCHANGED <<now, monitor>>
    /\ UNCHANGED <<updateVars, scanVars, subs, restVars>>

\* a stale entry is dropped from the cache
watchdog_evicts_stale(node, t) ==
    IF num_seconds(t - parse_from_rfc3339(node.last_seen)) > OfflineAfterSecs
    THEN NoNode ELSE node

\* an entry is declared OFFLINE from 30 seconds of silence on
watchdog_offline_from_30(node, t) ==
    LET last_utc == parse_from_rfc3339(node.last_seen)
    IN IF num_seconds(t - last_utc) >= OfflineAfterSecs
       THEN IF node.status = "ONLINE"
            THEN [node EXCEPT !.status = "OFFLINE"] ELSE node
       ELSE IF node.status = "OFFLINE"
            THEN [node EXCEPT !.status = "ONLINE"] ELSE node

\* what one watchdog pass makes of one entry
watchdog_node(node, t) ==
    LET last_utc == parse_from_rfc3339(node.last_seen)
    IN IF num_seconds(t - last_utc) > OfflineAfterSecs
       THEN IF node.status = "ONLINE"
            THEN [node EXCEPT !.status = "OFFLINE"] ELSE node
       ELSE IF node.status = "OFFLINE"
            THEN [node EXCEPT !.status = "ONLINE"] ELSE node

\* the changed flag is never raised
watchdog_never_changed(changed, nodes) == <<>>

\* the list is collected before the pass
watchdog_publishes_old_list(changed, nodes) ==
    IF changed THEN <<nodes_list_update(values(nodes_cache))>> ELSE <<>>

\* the list is sent at the end of every pass
watchdog_always_publishes(changed, nodes) ==
    <<nodes_list_update(values(nodes))>>

\* what the watchdog sends at the end of a pass
watchdog_publish(changed, nodes) ==
    IF changed THEN <<nodes_list_update(values(nodes))>> ELSE <<>>

\* node watchdog: one tick, under the nodes_cache lock
watchdog_tick ==
    LET nodes == [k \in NodeKeys |->
                    IF nodes_cache[k] = NoNode THEN NoNode
                    ELSE watchdog_node(nodes_cache[k], now)]
        changed == nodes # nodes_cache
    IN /\ nodes_cache' = nodes
       /\ tx_send(watchdog_publish(changed, nodes))
       /\ last' = Did("watchdog", Flips(nodes_cache, nodes))
       /\ UNCHANGED <<now, monitor, reports>>
       /\ UNCHANGED <<updateVars, scanVars, subs, restVars>>

(* ---------------------------------------------------------------------- *)
(* main.rs, routes.rs: the /ws subscribers of the Bus                      *)
(* ---------------------------------------------------------------------- *)

\* A connection: its Receiver (rx: none before the upgrade, open, dropped
\* once handle_socket has returned), the position of the next message
\* the Receiver reads (next), where handle_socket stands (pc) and the
\* message it holds (msg); and, as a record of the run, the positions of
\* the messages forwarded to the client (got), the number of messages a
\* Lagged result reported as missed (missed) and whether the socket
\* refused a message (socket_err).
NoMsg == [type |-> "none", data |-> NoNode]
IdleSub == [rx |-> "none", next |-> 0, pc |-> "recv", msg |-> NoMsg,
            got |-> <<>>, missed |-> 0, socket_err |-> FALSE]

\* the other tasks stand still while a connection steps
OthersIdle ==
    /\ tx_sent' = <<>>
    /\ UNCHANGED <<nodes_cache, now, monitor, reports, bus>>
    /\ UNCHANGED <<updateVars, scanVars, restVars>>

\* ws_handler, handle_socket: state.tx.subscribe()
ws_handler(c) ==
    /\ subs[c].rx = "none"
    /\ subs' = [subs EXCEPT ![c] = [@ EXCEPT !.rx = "open",
                                             !.next = Len(bus) + 1]]
    /\ last' = Did("ws_handler", {})
    /\ OthersIdle

\* Receiver::recv with a message waiting at position next, or overwritten
Lagged(c) == c.next + buffer_len <= Len(bus)
recv(c) ==
    IF Lagged(c)
    THEN [ok |-> FALSE, missed |-> (Len(bus) - buffer_len + 1) - c.next,
          msg |-> NoMsg, next |-> Len(bus) - buffer_len + 1]
    ELSE [ok |-> TRUE, missed |-> 0, msg |-> bus[c.next], next |-> c.next + 1]

\* handle_socket: while let Ok(msg) = rx.recv().await
handle_socket_on_recv(c, res) ==
    IF res.ok
    THEN [c EXCEPT !.next = res.next, !.pc = "send", !.msg = res.msg]
    ELSE [c EXCEPT !.next = res.next, !.rx = "dropped", !.pc = "returned",
                   !.missed = res.missed]

\* handle_socket: rx.recv() returns
handle_socket_recv(c) ==
    /\ subs[c].rx = "open" /\ subs[c].pc = "recv"
    /\ subs[c].next <= Len(bus)
    /\ subs' = [subs EXCEPT ![c] = handle_socket_on_recv(@, recv(@))]
    /\ last' = Did("handle_socket", {})
    /\ OthersIdle

\* handle_socket: socket.send(Message::Text(msg)) returns; an error breaks
\* the loop
handle_socket_send(c, ok) ==
    /\ subs[c].rx = "open" /\ subs[c].pc = "send"
    /\ subs' = [subs EXCEPT ![c] =
                 IF ok
                 THEN [@ EXCEPT !.pc = "recv", !.msg = NoMsg,
                                !.got = Append(@, subs[c].next - 1)]
                 ELSE [@ EXCEPT !.rx = "dropped", !.pc = "returned",
                                !.msg = NoMsg, !.socket_err = TRUE]]
    /\ last' = Did("handle_socket", {})
    /\ OthersIdle

InitBus ==
    /\ bus = <<>>
    /\ subs = [c \in Subs |-> IdleSub]

\* a Bus with its subscribers and report_node_status as the publisher
BusNext ==
    \/ \E c \in Subs : ws_handler(c)
    \/ \E c \in Subs : handle_socket_recv(c)
    \/ \E c \in Subs, ok \in BOOLEAN : handle_socket_send(c, ok)
    \/ \E name \in ReportNames, status \in ReportStatuses :
            report_node_status_build(NodeStatus(name, status))
    \/ \E call \in reports : report_node_status_insert(call)

InitNodes ==
    /\ nodes_cache = [k \in NodeKeys |-> NoNode]
    /\ now = 0
    /\ monitor = [pc |-> "sample", stats |-> NoNode]
    /\ reports = {}
    /\ tx_sent = <<>>
    /\ last = Did("init", {})
    /\ monitor_upstream \in {NoUrl} \cup UpstreamUrls

NodeNext ==
    \/ monitor_sample
    \/ monitor_insert
    \/ monitor_publish
    \/ \E name \in ReportNames, status \in ReportStatuses :
            report_node_status_build(NodeStatus(name, status))
    \/ \E call \in reports : report_node_status_insert(call)
    \/ watchdog_tick
    \/ \E d \in AdvanceSteps : Advance(d)

\* the monitor task with its report to the upstream agent, the watchdog
\* and the clock
ReporterNext ==
    \/ monitor_sample
    \/ monitor_insert
    \/ monitor_publish
    \/ \E ok \in BOOLEAN : monitor_connect(ok)
    \/ \E ok \in BOOLEAN : monitor_report(ok)
    \/ watchdog_tick
    \/ \E d \in AdvanceSteps : Advance(d)

\* the steps of the monitor task
MonitorStep ==
    \/ monitor_sample
    \/ monitor_insert
    \/ monitor_publish
    \/ \E ok \in BOOLEAN : monitor_connect(ok)
    \/ \E ok \in BOOLEAN : monitor_report(ok)

(* ---------------------------------------------------------------------- *)
(* main.rs: the service scanner and the auto-pilot map                     *)
(* ---------------------------------------------------------------------- *)

\* the characters of the names, in byte order
Alphabet == <<"-", "/">> \o Upper \o Lower
Code(ch) == CHOOSE k \in 1..Len(Alphabet) : Alphabet[k] = ch

\* str::cmp a < b: byte-wise lexicographic
RECURSIVE StrLess(_, _)
StrLess(a, b) ==
    IF b = <<>> THEN FALSE
    ELSE IF a = <<>> THEN TRUE
    ELSE IF a[1] # b[1] THEN Code(a[1]) < Code(b[1])
    ELSE StrLess(Tail(a), Tail(b))

\* str::replace(pat, ""), pat one token long
RECURSIVE replace(_, _)
replace(str, pat) ==
    IF str = <<>> THEN <<>>
    ELSE IF str[1] = pat THEN replace(Tail(str), pat)
    ELSE <<str[1]>> \o replace(Tail(str), pat)

\* ContainerSummary: names is Option<Vec<String>> (<<>> for None), the
\* image id is a sequence of characters after a "sha256:" token
Summary(names, image_id, image, status) ==
    [names |-> names, image_id |-> image_id, image |-> image,
     status |-> status]
LongId == <<"sha256:", "a", "b", "c", "d", "e", "f", "a", "b", "c", "d",
            "e", "f", "a", "b">>
ShortId == <<"a", "b", "c">>
Slash(name) == <<"/">> \o name
cA == Summary(<<Slash(SvcA)>>, LongId, ImgA, "Up 2 hours")
cRaw == Summary(<<Slash(NoImgSvc), Slash(SvcA)>>, ShortId, NoImage, "Exited (0)")
cSelf == Summary(<<Slash(SelfSvc)>>, LongId, ImgO, "Up 2 hours")
cSlash == Summary(<<<<"/">>>>, ShortId, ImgA, "Created")
cNoNames == Summary(<<>>, <<>>, ImgA, "Created")

\* what list_containers may return: the host changes between ticks
Enumerations == { <<cRaw, cA, cSelf>>, <<cA, cSlash, cNoNames>>, <<cRaw>> }
ListResults == {[ok |-> FALSE, containers |-> <<>>]}
               \cup {[ok |-> TRUE, containers |-> e] : e \in Enumerations}

\* the names the toggle requests carry
ToggleNames == {SvcA, NoImgSvc}

\* HashMap::get(..).unwrap_or(&false)
ap_get(map, name) == IF name \in DOMAIN map THEN map[name] ELSE FALSE

\* HashMap::insert
ap_insert(map, name, enabled) ==
    [n \in DOMAIN map \cup {name} |-> IF n = name THEN enabled ELSE map[n]]

\* scanner: the name of a container
scanner_name(c) ==
    replace(IF c.names = <<>> THEN <<>> ELSE c.names[1], "/")

\* scanner: the first 12 characters of the image id
scanner_short_id(c) ==
    LET image_id == replace(c.image_id, "sha256:")
    IN IF Len(image_id) > 12 THEN SubSeq(image_id, 1, 12) ELSE image_id

\* ServiceInstance (last_sync, a time of day no one reads, is left out)
ServiceInstance(c, map) ==
    [name |-> scanner_name(c), image |-> c.image, status |-> c.status,
     short_id |-> scanner_short_id(c),
     auto_pilot |-> ap_get(map, scanner_name(c)), node |-> node_name]

\* scanner: the containers the loop skips
scanner_skips(name) == name = <<>> \/ Contains(name, ORCHESTRATOR)

\* scanner: for c in containers { .. services.push(..) }
RECURSIVE scanner_services(_, _)
scanner_services(cs, map) ==
    IF cs = <<>> THEN <<>>
    ELSE (IF scanner_skips(scanner_name(cs[1])) THEN <<>>
          ELSE <<ServiceInstance(cs[1], map)>>)
         \o scanner_services(Tail(cs), map)

\* services.sort_by(|a, b| a.name.cmp(&b.name)): a stable sort
RECURSIVE sort_by_name(_)
InsertByName(sorted, x) ==
    LET after == {i \in 1..Len(sorted) : StrLess(x.name, sorted[i].name)}
        at == IF after = {} THEN Len(sorted) + 1
              ELSE CHOOSE i \in after : \A j \in after : i <= j
    IN SubSeq(sorted, 1, at - 1) \o <<x>> \o SubSeq(sorted, at, Len(sorted))
sort_by_name(services) ==
    IF services = <<>> THEN <<>>
    ELSE InsertByName(sort_by_name(SubSeq(services, 1, Len(services) - 1)),
                      services[Len(services)])

services_update(services) == [type |-> "services_update", data |-> services]

\* the guard is dropped as soon as the services are built
ap_guard_dropped_after_build == FALSE

\* the scanner task holds the auto_pilot_config guard from the build to
\* the end of the tick
ap_guard_held == scanner.pc \in {"lock_cache", "send"}

\* the other tasks stand still while the scanner or a toggle steps
ScanFrame ==
    /\ UNCHANGED <<nodes_cache, now, monitor, reports, subs>>
    /\ UNCHANGED <<updateVars, restVars>>

\* an enumeration error is taken for an empty host
scan_error_as_empty(sc, res) ==
    [sc EXCEPT !.pc = "lock_ap", !.containers = res.containers,
               !.ticks = (sc.ticks + 1) % update_check_ticks]

\* scanner: if let Ok(containers) = list_containers(..).await { .. }
scanner_on_list(sc, res) ==
    IF res.ok
    THEN [sc EXCEPT !.pc = "lock_ap", !.containers = res.containers,
                    !.ticks = (sc.ticks + 1) % update_check_ticks]
    ELSE [sc EXCEPT !.ticks = (sc.ticks + 1) % update_check_ticks]

\* scanner: interval.tick(), list_containers returns
scanner_list(res) ==
    /\ scanner.pc = "tick"
    /\ scanner' = scanner_on_list(scanner, res)
    /\ tx_send(<<>>)
    /\ last' = [Did("scanner_list", {}) EXCEPT !.info = [ok |-> res.ok]]
    /\ UNCHANGED <<auto_pilot_config, services_cache>>
    /\ ScanFrame

\* scanner: lock auto_pilot_config, build the services, sort them
scanner_build ==
    /\ scanner.pc = "lock_ap"
    /\ scanner' = [scanner EXCEPT
            !.pc = "lock_cache",
            !.services = sort_by_name(
                scanner_services(scanner.containers, auto_pilot_config))]
    /\ tx_send(<<>>)
    /\ last' = Did("scanner_build", {})
    /\ UNCHANGED <<auto_pilot_config, services_cache>>
    /\ ScanFrame

\* the new services are added to those of the cache
scanner_merge(cache, services) ==
    sort_by_name(SelectSeq(cache, LAMBDA x :
        \A i \in 1..Len(services) : services[i].name # x.name) \o services)

\* scanner: *cache = services.clone()
scanner_replace(cache, services) == services

\* export_llm_handler holds its services_cache guard from the lock to its
\* return
services_guard_held == export.pc = "fetch"

\* scanner: lock services_cache, replace it, unlock
scanner_store ==
    /\ scanner.pc = "lock_cache"
    /\ ~services_guard_held
    /\ services_cache' = scanner_replace(services_cache, scanner.services)
    /\ scanner' = [scanner EXCEPT !.pc = "send"]
    /\ tx_send(<<>>)
    /\ last' = [Did("scanner_store", {}) EXCEPT
                  !.info = [prev |-> services_cache]]
    /\ UNCHANGED auto_pilot_config
    /\ ScanFrame

\* scanner: send services_update; the tick ends, the guard is dropped
scanner_publish ==
    /\ scanner.pc = "send"
    /\ tx_send(<<services_update(scanner.services)>>)
    /\ scanner' = [scanner EXCEPT !.pc = "tick"]
    /\ last' = Did("scanner_publish", {})
    /\ UNCHANGED <<auto_pilot_config, services_cache>>
    /\ ScanFrame

\* the entry is flipped
toggle_flips(map, name, enabled) == ap_insert(map, name, ~ap_get(map, name))

\* both toggle handlers: insert(service, enabled)
toggle(map, name, enabled) == ap_insert(map, name, enabled)

\* routes.rs, POST /api/toggle-autopilot: lock auto_pilot_config, insert,
\* answer Json(enabled)
toggle_handler(name, enabled) ==
    /\ ~ap_guard_held
    /\ auto_pilot_config' = toggle(auto_pilot_config, name, enabled)
    /\ tx_send(<<>>)
    /\ last' = [Did("toggle_handler", {}) EXCEPT
                  !.info = [service |-> name, enabled |-> enabled,
                            echo |-> enabled, prev |-> auto_pilot_config]]
    /\ UNCHANGED <<services_cache, scanner>>
    /\ ScanFrame

\* main.rs, POST /api/toggle-autopilot: lock auto_pilot_config, insert,
\* answer Json(enabled)
toggle_autopilot_handler(name, enabled) ==
    /\ ~ap_guard_held
    /\ auto_pilot_config' = toggle(auto_pilot_config, name, enabled)
    /\ tx_send(<<>>)
    /\ last' = [Did("toggle_autopilot_handler", {}) EXCEPT
                  !.info = [service |-> name, enabled |-> enabled,
                            echo |-> enabled, prev |-> auto_pilot_config]]
    /\ UNCHANGED <<services_cache, scanner>>
    /\ ScanFrame

(* ---------------------------------------------------------------------- *)
(* routes.rs, main.rs: the handlers that read the caches                   *)
(* ---------------------------------------------------------------------- *)

IdleExport == [pc |-> "idle", i |-> 1, report |-> <<>>]

\* the scanner, the toggles, the monitor's report and the clock stand
\* still while a handler steps
ApiFrame ==
    /\ tx_send(<<>>)
    /\ UNCHANGED <<nodes_cache, now, monitor, reports, subs>>
    /\ UNCHANGED <<updateVars, scanVars, monitor_upstream, log_socket>>

\* export_llm_handler: let services = state.services_cache.lock().await
export_llm_handler_lock ==
    /\ export.pc = "idle"
    /\ export' = [pc |-> "fetch", i |-> 1, report |-> <<>>]
    /\ last' = Did("export_llm_handler_lock", {})
    /\ ApiFrame

\* the handler locks auto_pilot_config for each entry, its services_cache
\* guard held
export_fetch_locks_auto_pilot ==
    /\ ~ap_guard_held
    /\ export.pc = "fetch"
    /\ export.i <= Len(services_cache)
    /\ export' = [export EXCEPT
            !.i = @ + 1,
            !.report = Append(@, services_cache[export.i].short_id)]
    /\ last' = Did("export_llm_handler_fetch", {})
    /\ ApiFrame

\* export_llm_handler: get_logs_snapshot(&svc.short_id).await for the
\* entry the loop is at, the guard held
export_llm_handler_fetch ==
    /\ export.pc = "fetch"
    /\ export.i <= Len(services_cache)
    /\ export' = [export EXCEPT
            !.i = @ + 1,
            !.report = Append(@, services_cache[export.i].short_id)]
    /\ last' = Did("export_llm_handler_fetch", {})
    /\ ApiFrame

\* export_llm_handler: the loop is over, the report is returned and the
\* guard dropped
export_llm_handler_return ==
    /\ export.pc = "fetch"
    /\ export.i > Len(services_cache)
    /\ export' = IdleExport
    /\ last' = [Did("export_llm_handler", {}) EXCEPT
                  !.info = [report |-> export.report]]
    /\ ApiFrame

\* status_api_handler: lock services_cache, Json(guard.clone())
status_api_handler ==
    /\ ~services_guard_held
    /\ last' = [Did("status_api_handler", {}) EXCEPT
                  !.info = [body |-> services_cache]]
    /\ UNCHANGED export
    /\ ApiFrame

\* status_handler: lock services_cache, Json of the values
status_handler ==
    /\ ~services_guard_held
    /\ last' = [Did("status_handler", {}) EXCEPT
                  !.info = [body |-> services_cache]]
    /\ UNCHANGED export
    /\ ApiFrame

\* nodes_api_handler: lock nodes_cache, Json of the values
nodes_api_handler ==
    /\ last' = [Did("nodes_api_handler", {}) EXCEPT
                  !.info = [body |-> values(nodes_cache)]]
    /\ UNCHANGED export
    /\ ApiFrame

(* ---------------------------------------------------------------------- *)
(* routes.rs: the log forwarder of one /ws/logs/:id connection             *)
(* ---------------------------------------------------------------------- *)

\* The bytes of a log message: ASCII characters, and a byte that is not
\* valid UTF-8.
InvalidByte == "xFF"
REPLACEMENT_CHARACTER == "uFFFD"

\* String::from_utf8_lossy(&bytes).to_string()
from_utf8_lossy(bytes) ==
    [i \in 1..Len(bytes) |->
        IF bytes[i] = InvalidByte THEN REPLACEMENT_CHARACTER ELSE bytes[i]]

\* what log_stream.next() may yield: a LogOutput with its message, or an
\* error of the runtime
LogMessages == { <<"a">>, <<"b", InvalidByte>> }
LogItems == [ok : {TRUE}, message : LogMessages]
                \cup {[ok |-> FALSE, message |-> <<>>]}
NoItem == [ok |-> FALSE, message |-> <<"none">>]

\* the text sent for an error of the runtime: format!("Error: {}", e)
ErrorText == <<"Error: ", "e">>

IdleLogSocket ==
    [pc |-> "idle", item |-> NoItem, yielded |-> <<>>, forwarded |-> <<>>,
     why |-> "none"]

\* the caches, the Bus and the other tasks stand still while the log
\* forwarder steps
LogFrame ==
    /\ tx_send(<<>>)
    /\ UNCHANGED <<nodes_cache, now, monitor, reports, subs>>
    /\ UNCHANGED <<updateVars, scanVars, monitor_upstream, export>>

\* ws_logs_handler, handle_log_socket: get_log_stream(&id)
ws_logs_handler ==
    /\ log_socket.pc \in {"idle", "closed"}
    /\ log_socket' = [IdleLogSocket EXCEPT !.pc = "next"]
    /\ last' = Did("ws_logs_handler", {})
    /\ LogFrame

\* handle_log_socket: log_stream.next().await yields an item
handle_log_socket_next(item) ==
    /\ log_socket.pc = "next"
    /\ Len(log_socket.yielded) < MaxLogItems
    /\ log_socket' = [log_socket EXCEPT
            !.pc = IF item.ok THEN "send" ELSE "send_error",
            !.item = item,
            !.yielded = Append(@, item),
            !.why = IF item.ok THEN @ ELSE "stream_error"]
    /\ last' = Did("handle_log_socket_next", {})
    /\ LogFrame

\* handle_log_socket: log_stream.next().await yields None, the loop and
\* the function end
handle_log_socket_end ==
    /\ log_socket.pc = "next"
    /\ log_socket' = [log_socket EXCEPT
            !.pc = "closed", !.item = NoItem, !.why = "stream_end"]
    /\ last' = Did("handle_log_socket_end", {})
    /\ LogFrame

\* a failed send is passed over and the loop goes on
send_failure_passed_over(ok) == "next"

\* handle_log_socket: if socket.send(..).await.is_err() { break; }
handle_log_socket_after_send(ok) == IF ok THEN "next" ELSE "closed"

\* handle_log_socket: socket.send(Message::Text(log_str)).await returns
handle_log_socket_send(ok) ==
    /\ log_socket.pc = "send"
    /\ log_socket' = [log_socket EXCEPT
            !.pc = handle_log_socket_after_send(ok),
            !.item = NoItem,
            !.forwarded = IF ok
                THEN Append(@, from_utf8_lossy(log_socket.item.message))
                ELSE @,
            !.why = IF ok THEN @ ELSE "send_error"]
    /\ last' = [Did("handle_log_socket_send", {}) EXCEPT
                  !.info = [ok |-> ok]]
    /\ LogFrame

\* handle_log_socket: Err(e) => { let _ = socket.send(Error text); break; }
handle_log_socket_error(ok) ==
    /\ log_socket.pc = "send_error"
    /\ log_socket' = [log_socket EXCEPT
            !.pc = "closed",
            !.item = NoItem,
            !.forwarded = IF ok THEN Append(@, ErrorText) ELSE @]
    /\ last' = [Did("handle_log_socket_error", {}) EXCEPT
                  !.info = [ok |-> ok]]
    /\ LogFrame

LogNext ==
    \/ ws_logs_handler
    \/ \E item \in LogItems : handle_log_socket_next(item)
    \/ handle_log_socket_end
    \/ \E ok \in BOOLEAN : handle_log_socket_send(ok)
    \/ \E ok \in BOOLEAN : handle_log_socket_error(ok)

InitApi == export = IdleExport /\ log_socket = IdleLogSocket

\* AUTO_PILOT_SERVICES unset, nothing scanned yet; ticks counts the ticks
\* of the scanner's interval modulo update_check_ticks, a count the task
\* itself does not keep
InitScan ==
    /\ auto_pilot_config = <<>>
    /\ services_cache = <<>>
    /\ scanner = [pc |-> "tick", containers |-> <<>>, services |-> <<>>,
                  ticks |-> 0]

ScanNext ==
    \/ \E res \in ListResults : scanner_list(res)
    \/ scanner_build
    \/ scanner_store
    \/ scanner_publish
    \/ \E name \in ToggleNames, enabled \in BOOLEAN :
            toggle_handler(name, enabled)
    \/ \E name \in ToggleNames, enabled \in BOOLEAN :
            toggle_autopilot_handler(name, enabled)

\* the tasks and handlers that lock auto_pilot_config and services_cache,
\* and one that locks nodes_cache
ScannerStep ==
    \/ \E res \in ListResults : scanner_list(res)
    \/ scanner_build
    \/ scanner_store
    \/ scanner_publish

ExportStep ==
    \/ export_llm_handler_lock
    \/ export_llm_handler_fetch
    \/ export_llm_handler_return

LockNext ==
    \/ \E res \in ListResults : scanner_list(res)
    \/ scanner_build
    \/ scanner_store
    \/ scanner_publish
    \/ \E name \in ToggleNames, enabled \in BOOLEAN :
            toggle_autopilot_handler(name, enabled)
    \/ export_llm_handler_lock
    \/ export_llm_handler_fetch
    \/ export_llm_handler_return
    \/ status_api_handler
    \/ status_handler
    \/ nodes_api_handler
    \/ watchdog_tick

(* ---------------------------------------------------------------------- *)
(* Specifications                                                          *)
(* ---------------------------------------------------------------------- *)

Init == InitUpdate /\ InitNodes /\ InitBus /\ InitScan /\ InitApi

Next ==
    \/ UpdateNext \/ NodeNext \/ BusNext \/ ScanNext \/ ReporterNext
    \/ LockNext \/ LogNext

\* the whole agent
Spec == Init /\ [][Next]_vars

\* the update engine alone
InitUpdateSpec == Init /\ monitor_upstream = NoUrl
UpdateSpec == InitUpdateSpec /\ [][UpdateNext]_vars

\* node liveness alone, no newer image published
InitNodeSpec ==
    Init /\ registry = [i \in Images |-> 1] /\ monitor_upstream = NoUrl
NodeSpec == InitNodeSpec /\ [][NodeNext]_vars

\* the Bus, its subscribers and the reports published on it
BusSpec == InitNodeSpec /\ [][BusNext]_vars

\* the scanner and the toggle requests
ScanSpec == InitNodeSpec /\ [][ScanNext]_vars

\* the scanner, a toggle handler and the handlers that read the caches
LockSpec == InitNodeSpec /\ [][LockNext]_vars

\* one log connection after another
LogSpec == InitNodeSpec /\ [][LogNext]_vars

\* the same, every task that holds a guard scheduled whenever it can step;
\* tokio's Mutex serves its waiters first in, first out, so the scanner,
\* once it waits for services_cache, is not passed over for ever by later
\* requests
LockFairSpec ==
    /\ InitNodeSpec /\ [][LockNext]_vars
    /\ SF_vars(scanner_store) /\ WF_vars(scanner_publish)
    /\ WF_vars(export_llm_handler_fetch \/ export_llm_handler_return)

\* the monitor task, with or without an upstream agent; the task is
\* spawned by tokio and is scheduled whenever it can step
InitReporterSpec == Init /\ registry = [i \in Images |-> 1]
ReporterSpec ==
    InitReporterSpec /\ [][ReporterNext]_vars /\ WF_vars(MonitorStep)

(* ---------------------------------------------------------------------- *)
(* Properties of the update engine (checked under UpdateSpec)              *)
(* ---------------------------------------------------------------------- *)

Destructive == {"stop_container", "remove_container",
                "create_container", "start_container"}

\* the request has called stop, remove, create or start
Touched(q) == \E i \in 1..Len(q.calls) : q.calls[i].op \in Destructive

Ops(q) == [i \in 1..Len(q.calls) |-> q.calls[i].op]

\* the call of that name was made, has returned, and ended as out
Ended(q, op, out) ==
    \E i \in 1..Len(q.outs) : q.calls[i].op = op /\ q.outs[i] = out

\* the pull stream of the request yielded an error item
PullErrored(q) == \E i \in 1..Len(q.stream) : q.stream[i] = "error"

\* the pull ran to its end and left an image with the container's own id
PulledSame(q) == q.pulled_id # 0 /\ q.pulled_id = q.inspect.image_id

\* the pull ran to its end and left an image with another id
PulledNewer(q) == q.pulled_id # 0 /\ q.pulled_id # q.inspect.image_id

IsSelf(q) == Contains(q.svc, ORCHESTRATOR)

\* the request is between its inspect step and its last step
InFlight(q) == q.pc \notin {"idle", "done"}

\* C1: once the pull stream of an update has yielded an error item, the
\* update has returned a registry (pull) error, it has called none of
\* stop, remove, create and start, and (no other update having run) every
\* container is as it was before the call.
C1_PullErrorAborts ==
    \A r \in Reqs :
        LET q == req[r]
        IN PullErrored(q) =>
            /\ q.pc = "done"
            /\ ~q.ret.ok
            /\ q.ret.val \in {"Registry error", "Pull failed"}
            /\ ~Touched(q)
            /\ (started = 1 => containers = InitialContainers)

\* C1, its case: an update whose pull stream failed after a progress item
C1_Witness ==
    \E r \in Reqs :
        /\ PullErrored(req[r]) /\ Len(req[r].stream) > 1
        /\ req[r].pc = "done" /\ started = 1

\* what C2 says of one request
SameImageNoRecreate(q) ==
    PulledSame(q) =>
        /\ ~Touched(q)
        /\ (q.pc = "done" /\ ~Ended(q, "inspect_image", "err") =>
                /\ q.status = 200
                /\ q.body = "Already up to date, restarted.")

\* C2: an update whose pull succeeded with an image id equal to the
\* container's calls none of stop, remove, create and start, and (the
\* image inspect not failing) reports "already up to date".
C2_SameImageNoRecreate ==
    \A r \in Reqs : SameImageNoRecreate(req[r])

\* C2 holds of the updates that run check_and_update_service
C2_HoldsOfDockerAdapter ==
    \A r \in Reqs :
        req[r].kind = "update_handler" => SameImageNoRecreate(req[r])

\* what C3 says of one request
SelfProtection(q) ==
    IsSelf(q) /\ PulledNewer(q) =>
        /\ ~Touched(q)
        /\ (q.pc = "done" /\ ~Ended(q, "inspect_image", "err") =>
                q.ret.ok /\ q.status = 200)

\* C3: an update of a service whose name contains "orchestrator" that
\* found a newer image calls none of stop, remove, create and start, and
\* (the image inspect not failing) succeeds with status 200.
C3_SelfProtection ==
    \A r \in Reqs : SelfProtection(req[r])

\* C3 holds of the updates that run check_and_update_service
C3_HoldsOfDockerAdapter ==
    \A r \in Reqs :
        req[r].kind = "update_handler" => SelfProtection(req[r])

RecreateOrder ==
    <<"inspect_container", "create_image", "inspect_image", "stop_container",
      "remove_container", "create_container", "start_container">>

\* what C4 says of one request
RecreateCallOrder(q) ==
    LET n == Len(q.calls)
    IN ~IsSelf(q) /\ PulledNewer(q) /\ ~Ended(q, "inspect_image", "err") =>
        /\ n <= Len(RecreateOrder)
        /\ Ops(q) = SubSeq(RecreateOrder, 1, n)
        /\ (Ended(q, "inspect_image", "ok") => n >= 4)
        /\ \A i \in 1..n :
            /\ q.calls[i].op = "stop_container" =>
                  q.calls[i].name = q.svc /\ q.calls[i].arg.t = 10
            /\ q.calls[i].op = "remove_container" =>
                  q.calls[i].name = q.svc /\ q.calls[i].arg.force
            /\ q.calls[i].op = "create_container" =>
                  /\ q.calls[i].name = q.svc
                  /\ q.calls[i].arg = BuildConfig(q.inspect.image, q.inspect)
            /\ q.calls[i].op = "start_container" =>
                  q.calls[i].name = q.svc
        /\ (q.pc = "done" => n >= 6)
        /\ (q.pc = "done" /\ Ended(q, "create_container", "ok") => n = 7)

\* C4: an update of a non-self service that found a newer image makes its
\* runtime calls in the order inspect, pull, inspect image, stop(t = 10),
\* remove(force), create(same name, captured config), start: at any
\* moment its calls are the first calls of that order, stop follows the
\* image inspect at once, and it ends only after create (whatever stop and
\* remove returned) and, create having succeeded, after start.
C4_RecreateCallOrder ==
    \A r \in Reqs : RecreateCallOrder(req[r])

\* C4 holds of the updates that run check_and_update_service
C4_HoldsOfDockerAdapter ==
    \A r \in Reqs :
        req[r].kind = "update_handler" => RecreateCallOrder(req[r])

\* C5: no two updates of the same service are in flight together.
C5_OneUpdatePerService ==
    \A r, p \in Reqs :
        r # p /\ InFlight(req[r]) /\ InFlight(req[p]) =>
            req[r].svc # req[p].svc

\* C6: an update whose create or start call failed has returned an error,
\* answered 500, and made no call after the failed one (no rollback, no
\* retry); and an update of a non-self service that found a newer image
\* has returned success only after create and start both succeeded.
C6_FailedRecreateIsFatal ==
    \A r \in Reqs :
        LET q == req[r]
            n == Len(q.calls)
        IN /\ (Ended(q, "create_container", "err")
                   \/ Ended(q, "start_container", "err")) =>
                /\ q.pc = "done" /\ ~q.ret.ok /\ q.status = 500
                /\ Len(q.outs) = n /\ q.outs[n] = "err"
                /\ Cardinality({i \in 1..n :
                                   q.calls[i].op = "create_container"}) = 1
           /\ (q.pc = "done" /\ q.ret.ok /\ ~IsSelf(q) /\ PulledNewer(q)) =>
                /\ Ended(q, "create_container", "ok")
                /\ Ended(q, "start_container", "ok")

\* C6, its case: create failed after the old container was removed, the
\* update has answered 500 and the service is absent
C6_Witness ==
    \E r \in Reqs :
        /\ Ended(req[r], "remove_container", "ok")
        /\ Ended(req[r], "create_container", "err")
        /\ req[r].pc = "done" /\ req[r].status = 500
        /\ containers[req[r].svc] = Absent

\* C7: an update for a service that has no container fails at the inspect
\* step, makes no other call on the runtime, and is answered with a 4xx
\* status.
C7_NotFoundIs4xx ==
    \A r \in Reqs :
        LET q == req[r]
        IN q.pc = "done" /\ Ended(q, "inspect_container", "err") =>
            /\ ~q.ret.ok
            /\ Len(q.calls) = 1
            /\ q.status \in 400..499

(* ---------------------------------------------------------------------- *)
(* Properties of node liveness (checked under NodeSpec)                    *)
(* ---------------------------------------------------------------------- *)

\* the age of an entry at time t, in milliseconds
Age(node, t) == t - parse_from_rfc3339(node.last_seen)

\* a message of that type is among those the latest step sent
Sent(msgs, type) == \E i \in 1..Len(msgs) : msgs[i].type = type

\* C8: a watchdog tick sets OFFLINE, and publishes nodes_list_update for,
\* every ONLINE entry whose last_seen is more than 30 seconds old, and
\* sets no entry OFFLINE whose last_seen is at most 30 seconds old.
C8_OfflineDetection ==
    [][last'.task = "watchdog" =>
        \A k \in NodeKeys :
            nodes_cache[k] # NoNode /\ nodes_cache[k].status = "ONLINE" =>
                IF Age(nodes_cache[k], now) > 30000
                THEN /\ nodes_cache'[k].status = "OFFLINE"
                     /\ Sent(tx_sent', "nodes_list_update")
                ELSE nodes_cache'[k].status = "ONLINE"]_vars

\* C9: when report_node_status has inserted a report, the entry of the
\* reporting node is ONLINE and its last_seen is not older than that of
\* the entry it replaced.
C9_ReportRevives ==
    [][last'.task = "report" =>
        \A k \in NodeKeys :
            nodes_cache'[k] # nodes_cache[k] \/ tx_sent'[1].data.name = k =>
                /\ tx_sent'[1].data.name = k
                /\ nodes_cache'[k].status = "ONLINE"
                /\ (nodes_cache[k] # NoNode =>
                        Age(nodes_cache'[k], now) <= Age(nodes_cache[k], now))
     ]_vars

\* C10: every change of the status of a node entry made by the watchdog or
\* by an incoming report publishes a nodes_list_update.
C10_EveryFlipPublishesList ==
    last.flips # {} /\ last.task \in {"watchdog", "report"} =>
        Sent(tx_sent, "nodes_list_update")

\* C10, as main.rs publishes: a step that changes the status of node entries
\* is a watchdog tick that publishes one nodes_list_update carrying every
\* entry as it is after the tick, or a write of one entry that turns it
\* ONLINE: by report_node_status, which publishes one node_update carrying
\* that entry in the same step, or by the monitor, whose next step
\* publishes one node_update carrying the entry it wrote.
C10_FlipsArePublished ==
    [][/\ last'.flips # {} =>
            \/ /\ last'.task = "watchdog"
               /\ tx_sent' = <<nodes_list_update(values(nodes_cache'))>>
            \/ /\ last'.task \in {"report", "monitor"}
               /\ \E f \in last'.flips :
                    /\ last'.flips = {f}
                    /\ f.from = "OFFLINE" /\ f.to = "ONLINE"
                    /\ IF last'.task = "report"
                       THEN tx_sent' = <<node_update(nodes_cache'[f.key])>>
                       ELSE /\ monitor'.pc = "publish"
                            /\ monitor'.stats = nodes_cache'[f.key]
       /\ monitor.pc = "publish" /\ monitor' # monitor =>
            tx_sent' = <<node_update(monitor.stats)>>
     ]_vars

\* C10, its case: report_node_status has turned an OFFLINE entry ONLINE
C10_Witness ==
    /\ last.task = "report"
    /\ \E f \in last.flips : f.from = "OFFLINE" /\ f.to = "ONLINE"

\* C11: a name that is a key of nodes_cache is a key after every step of
\* the monitor, the watchdog and report_node_status; and a watchdog tick
\* leaves an entry as it is, but for the status of a stale entry, which is
\* OFFLINE after the tick.
C11_EntriesAreNeverDeleted ==
    [][\A k \in NodeKeys :
        nodes_cache[k] # NoNode =>
            /\ nodes_cache'[k] # NoNode
            /\ nodes_cache'[k].name = nodes_cache[k].name
            /\ last'.task = "watchdog" =>
                /\ nodes_cache'[k].last_seen = nodes_cache[k].last_seen
                /\ (num_seconds(Age(nodes_cache[k], now)) > OfflineAfterSecs
                        => nodes_cache'[k].status = "OFFLINE")
     ]_vars

\* C11, its case: a watchdog tick has found a stale entry and the entry is
\* still in the cache, OFFLINE
C11_Witness ==
    /\ last.task = "watchdog"
    /\ \E f \in last.flips :
        /\ f.to = "OFFLINE"
        /\ nodes_cache[f.key] # NoNode
        /\ nodes_cache[f.key].status = "OFFLINE"
        /\ num_seconds(Age(nodes_cache[f.key], now)) > OfflineAfterSecs

(* ---------------------------------------------------------------------- *)
(* Properties of the scanner and the auto-pilot map (under ScanSpec)       *)
(* ---------------------------------------------------------------------- *)

\* the names of a snapshot, and the normalized names of an enumeration
Names(services) == {services[i].name : i \in 1..Len(services)}
NormalizedNames(cs) == {scanner_name(cs[i]) : i \in 1..Len(cs)}

\* C12: when the scanner has stored a snapshot, the names in
\* services_cache are the normalized names of the containers of that
\* enumeration, but for the empty name.
C12_CacheIsTheEnumeration ==
    last.task = "scanner_store" =>
        Names(services_cache) = NormalizedNames(scanner.containers) \ {<<>>}

\* C12, with the scanner's second exception: the names in services_cache
\* are the normalized names of the enumeration, but for the empty name
\* and the names that contain "orchestrator"; nothing of the snapshot
\* replaced is kept.
C12_CacheIsTheEnumerationButSelf ==
    last.task = "scanner_store" =>
        /\ Names(services_cache) =
              {n \in NormalizedNames(scanner.containers) :
                   n # <<>> /\ ~Contains(n, ORCHESTRATOR)}
        /\ services_cache = scanner.services

\* C12, its case: a snapshot has replaced one that held a name the new
\* enumeration lacks, and the name is gone
C12_Witness ==
    /\ last.task = "scanner_store"
    /\ \E n \in Names(last.info.prev) :
        /\ n \notin NormalizedNames(scanner.containers)
        /\ n \notin Names(services_cache)
    /\ services_cache # <<>>

\* C13: a tick whose enumeration returns an error leaves services_cache as
\* it was, publishes nothing, and leaves the scanner waiting for its next
\* tick.
C13_ScannerFailsSoft ==
    [][last'.task = "scanner_list" /\ ~last'.info.ok =>
        /\ services_cache' = services_cache
        /\ tx_sent' = <<>>
        /\ scanner'.pc = "tick"
        /\ scanner'.containers = scanner.containers
        /\ scanner'.services = scanner.services
     ]_vars

\* C13, its case: an enumeration has failed and the snapshot of an earlier
\* tick is still in the cache
C13_Witness ==
    /\ last.task = "scanner_list" /\ ~last.info.ok
    /\ services_cache # <<>>
    /\ scanner.pc = "tick"

(* ---------------------------------------------------------------------- *)
(* Properties of the Bus (checked under BusSpec)                           *)
(* ---------------------------------------------------------------------- *)

\* the positions a connection forwarded are consecutive
Consecutive(got) == \A i \in 1..(Len(got) - 1) : got[i + 1] = got[i] + 1

\* C14: a subscriber that fell behind by more than the capacity of the
\* channel loses its oldest undelivered messages and stays subscribed: a
\* connection ends only when its socket refuses a message, what it
\* forwards is in the order sent, and a subscriber that missed nothing
\* forwards every message from its subscription on, whatever the others
\* do.
C14_SlowSubscriberStays ==
    \A c \in Subs :
        /\ subs[c].rx = "dropped" => subs[c].socket_err
        /\ \A i \in 1..(Len(subs[c].got) - 1) :
              subs[c].got[i] < subs[c].got[i + 1]
        /\ subs[c].missed = 0 => Consecutive(subs[c].got)

\* a subscriber that keeps up is untouched by one that does not
C14_OthersUnaffected ==
    \A c \in Subs :
        subs[c].missed = 0 =>
            /\ Consecutive(subs[c].got)
            /\ subs[c].rx = "dropped" => subs[c].socket_err

(* ---------------------------------------------------------------------- *)
(* Publication and state (checked under NodeSpec and ScanSpec)             *)
(* ---------------------------------------------------------------------- *)

\* the cache a message describes holds the data of the message
HoldsPublished(msg) ==
    CASE msg.type = "services_update" -> services_cache = msg.data
      [] msg.type = "node_update" -> nodes_cache[msg.data.name] = msg.data
      [] msg.type = "nodes_list_update" -> values(nodes_cache) = msg.data
      [] OTHER -> TRUE

\* C15: at the moment a services_update, node_update or nodes_list_update
\* is sent, the corresponding cache holds the published data.
C15_CacheHoldsWhatIsPublished ==
    \A i \in 1..Len(tx_sent) : HoldsPublished(tx_sent[i])

\* C15, for the monitor as what it is: the scanner, report_node_status and
\* the watchdog send what the cache holds at that moment; the monitor
\* sends, in the step after its insert, the entry the cache held when the
\* insert was done, whatever was written to the cache in between.
C15_PublishedAfterWritten ==
    [][/\ last'.task # "monitor_publish" =>
            \A i \in 1..Len(tx_sent') :
                LET msg == tx_sent'[i]
                IN CASE msg.type = "services_update" ->
                            services_cache' = msg.data
                     [] msg.type = "node_update" ->
                            nodes_cache'[msg.data.name] = msg.data
                     [] msg.type = "nodes_list_update" ->
                            values(nodes_cache') = msg.data
                     [] OTHER -> TRUE
       /\ last'.task = "monitor" =>
            /\ monitor.pc = "insert" /\ monitor'.pc = "publish"
            /\ monitor'.stats = monitor.stats
            /\ nodes_cache'[node_name] = monitor.stats
            /\ tx_sent' = <<>>
       /\ monitor.pc = "publish" =>
            IF last'.task = "monitor_publish"
            THEN tx_sent' = <<node_update(monitor.stats)>>
            ELSE monitor' = monitor
       /\ last'.task = "monitor_publish" => monitor.pc = "publish"
     ]_vars

\* C15, its case: the monitor has sent a node_update for an entry that
\* another task has replaced since the monitor wrote it
C15_Witness ==
    /\ last.task = "monitor_publish"
    /\ tx_sent[1].type = "node_update"
    /\ nodes_cache[node_name] # tx_sent[1].data

(* ---------------------------------------------------------------------- *)
(* The auto-pilot map (checked under ScanSpec)                             *)
(* ---------------------------------------------------------------------- *)

ToggleTasks == {"toggle_handler", "toggle_autopilot_handler"}

\* C16: a toggle request toggle(s, b) leaves the entry of s equal to b and
\* the other entries as they were, and echoes b; applied to a map in
\* which the entry of s is b already it leaves the map as it is, and
\* applying it twice to any map the agent reaches gives the map that
\* applying it once gives.
C16_ToggleIsIdempotent ==
    [][/\ last'.task \in ToggleTasks =>
            LET s == last'.info.service
                b == last'.info.enabled
            IN /\ s \in DOMAIN auto_pilot_config'
               /\ auto_pilot_config'[s] = b
               /\ last'.info.echo = b
               /\ DOMAIN auto_pilot_config' = DOMAIN auto_pilot_config \cup {s}
               /\ \A n \in DOMAIN auto_pilot_config \ {s} :
                      auto_pilot_config'[n] = auto_pilot_config[n]
               /\ (s \in DOMAIN auto_pilot_config /\ auto_pilot_config[s] = b
                      => auto_pilot_config' = auto_pilot_config)
       /\ \A s \in ToggleNames, b \in BOOLEAN :
            toggle(toggle(auto_pilot_config, s, b), s, b)
                = toggle(auto_pilot_config, s, b)
     ]_vars

\* C16, its case: the same toggle has been applied a second time and the
\* map is what the first left
C16_Witness ==
    /\ last.task \in ToggleTasks
    /\ last.info.service \in DOMAIN last.info.prev
    /\ last.info.prev[last.info.service] = last.info.enabled
    /\ last.info.enabled
    /\ auto_pilot_config = last.info.prev
    /\ Cardinality(DOMAIN auto_pilot_config) = 2

(* ---------------------------------------------------------------------- *)
(* Report ingestion (checked under NodeSpec)                               *)
(* ---------------------------------------------------------------------- *)

\* HashMap::contains_key of nodes_cache
contains_key(nodes, k) == k \in DOMAIN nodes /\ nodes[k] # NoNode

\* C17: when report_node_status has accepted a report, the cache holds the
\* report under the key equal to the node name of the report, and a
\* cluster_update has been published.
C17_ReportKeyedByItsName ==
    [][last'.task = "report" =>
        LET n == last'.info.node_name
        IN /\ contains_key(nodes_cache', n)
           /\ nodes_cache'[n].name = n
           /\ Sent(tx_sent', "cluster_update")
     ]_vars

\* C17, as main.rs ingests: the report is inserted under the uppercased
\* node name, in place of the entry that key had and with every other
\* entry left as it was; no entry is kept under the name as reported where
\* that differs; and the one event published is a node_update carrying the
\* entry inserted.
C17_ReportKeyedByUppercasedName ==
    [][last'.task = "report" =>
        LET n == last'.info.node_name
            k == to_uppercase(n)
        IN /\ contains_key(nodes_cache', k)
           /\ nodes_cache'[k].name = k
           /\ nodes_cache'[k].status = "ONLINE"
           /\ \A j \in NodeKeys \ {k} : nodes_cache'[j] = nodes_cache[j]
           /\ n # k => ~contains_key(nodes_cache', n)
           /\ tx_sent' = <<node_update(nodes_cache'[k])>>
           /\ ~Sent(tx_sent', "cluster_update")
     ]_vars

\* C17, its case: a report under a name that is not its own uppercase has
\* replaced the entry its key had
C17_Witness ==
    /\ last.task = "report"
    /\ last.info.node_name # to_uppercase(last.info.node_name)
    /\ last.info.prev # NoNode
    /\ nodes_cache[to_uppercase(last.info.node_name)] # last.info.prev
    /\ tx_sent = <<node_update(nodes_cache[to_uppercase(last.info.node_name)])>>

\* C18: report_node_status acknowledges success only where the send of
\* its node_update succeeded.
C18_AckOnlyAfterPublish ==
    last.task = "report" /\ last.info.ack.success => last.info.sent

\* C18, as main.rs acknowledges: every report is acknowledged with success,
\* after its entry has been inserted and its node_update handed to the
\* Bus; the send succeeds, and stores the event for the subscribers, iff
\* the Bus has a subscriber, and its result does not reach the Ack.
C18_AckAfterInsertWhateverTheSend ==
    [][last'.task = "report" =>
        LET k == to_uppercase(last'.info.node_name)
        IN /\ last'.info.ack = [success |-> TRUE]
           /\ contains_key(nodes_cache', k)
           /\ tx_sent' = <<node_update(nodes_cache'[k])>>
           /\ last'.info.sent = (Receivers # {})
           /\ bus' = IF Receivers # {} THEN bus \o tx_sent' ELSE bus
     ]_vars

\* C18, its case: a report has been acknowledged whose node_update no
\* subscriber was there to take, after one that was stored
C18_Witness ==
    /\ last.task = "report"
    /\ last.info.ack.success
    /\ ~last.info.sent
    /\ Receivers = {}
    /\ Len(bus) > 0
    /\ contains_key(nodes_cache, to_uppercase(last.info.node_name))

\* C19: ingesting one report never turns an ONLINE entry OFFLINE: an entry
\* that is ONLINE before report_node_status inserts, that of the reporting
\* node with an older last_seen included, is ONLINE after it, whatever
\* status the report carried.
C19_ReportNeverRegresses ==
    [][last'.task = "report" =>
        /\ \A k \in NodeKeys :
             nodes_cache[k] # NoNode /\ nodes_cache[k].status = "ONLINE" =>
                nodes_cache'[k].status = "ONLINE"
        /\ \A f \in last'.flips : f.to = "ONLINE"
     ]_vars

\* C19, its case: a report has replaced an ONLINE entry by one with a
\* fresher last_seen
C19_Witness ==
    /\ last.task = "report"
    /\ last.info.prev # NoNode
    /\ last.info.prev.status = "ONLINE"
    /\ LET k == to_uppercase(last.info.node_name)
       IN /\ parse_from_rfc3339(nodes_cache[k].last_seen)
                > parse_from_rfc3339(last.info.prev.last_seen)
          /\ nodes_cache[k].status = "ONLINE"

(* ---------------------------------------------------------------------- *)
(* The auto-pilot trigger (checked under ScanSpec)                         *)
(* ---------------------------------------------------------------------- *)

\* C20: the scanner tick that completes a round of update_check_ticks ticks
\* starts an update of every service whose auto_pilot_config entry is
\* true.
C20_EveryRoundStartsUpdates ==
    [][scanner.ticks = update_check_ticks - 1 /\ scanner'.ticks = 0 =>
        \A s \in DOMAIN auto_pilot_config :
            auto_pilot_config[s] =>
                /\ started' > started
                /\ \E r \in Reqs : req'[r] # req[r] /\ req'[r].svc = s
     ]_vars

(* ---------------------------------------------------------------------- *)
(* The report to the upstream agent (checked under ReporterSpec)           *)
(* ---------------------------------------------------------------------- *)

UpstreamTasks == {"monitor_connect", "monitor_report"}

\* the latest step was an upstream attempt that failed
UpstreamFailed == last.task \in UpstreamTasks /\ ~last.info.ok

\* C21: the monitor task turns to the upstream agent after a publish iff
\* an upstream address is configured, and takes no upstream step without
\* one; an upstream step that fails changes neither the caches nor the
\* Bus and leaves the task at the start of its next round; and after a
\* failed attempt the task comes to connect again.
C21_UpstreamFailsSoft ==
    /\ [][/\ last'.task = "monitor_publish" =>
                (monitor'.pc = "connect" <=> monitor_upstream # NoUrl)
          /\ last'.task \in UpstreamTasks =>
                /\ monitor_upstream \in UpstreamUrls
                /\ last'.info.url = monitor_upstream
                /\ nodes_cache' = nodes_cache
                /\ services_cache' = services_cache
                /\ auto_pilot_config' = auto_pilot_config
                /\ tx_sent' = <<>> /\ bus' = bus
                /\ (~last'.info.ok => monitor'.pc = "sample")
         ]_vars
    /\ [](monitor_upstream = NoUrl =>
            monitor.pc \in {"sample", "insert", "publish"})
    /\ (UpstreamFailed ~> monitor.pc = "connect")

\* C21, its case: the report call to the upstream agent has failed, not
\* for the first round, and the local entry is as the monitor wrote it
C21_Witness ==
    /\ last.task = "monitor_report"
    /\ ~last.info.ok
    /\ monitor.pc = "sample"
    /\ now > 0
    /\ nodes_cache[node_name] # NoNode
    /\ nodes_cache[node_name].last_seen = last.info.req.timestamp

(* ---------------------------------------------------------------------- *)
(* The mutexes of AppState (checked under ScanSpec and LockSpec)           *)
(* ---------------------------------------------------------------------- *)

\* The tasks that keep a guard from one step to a later one; every other
\* task and handler locks one mutex, works on the map and drops the guard
\* within one step.
LockTasks == {"scanner", "export_llm_handler"}

\* the mutexes whose guard the task holds
Held(t) ==
    IF t = "scanner"
    THEN IF ap_guard_held THEN {"auto_pilot_config"} ELSE {}
    ELSE IF services_guard_held THEN {"services_cache"} ELSE {}

\* the mutex the task is at the lock().await of
Acquiring(t) ==
    IF t = "scanner"
    THEN IF scanner.pc = "lock_ap" THEN {"auto_pilot_config"}
         ELSE IF scanner.pc = "lock_cache" THEN {"services_cache"}
         ELSE {}
    ELSE {}

\* C22: no task that holds the guard of one mutex of AppState is at the
\* lock of another.
C22_NoLockNests ==
    \A t \in LockTasks : Held(t) # {} => Acquiring(t) \subseteq Held(t)

\* the task is inside a call on the container runtime
DoingIO(t) ==
    IF t = "scanner" THEN scanner.pc = "tick"
    ELSE export.pc = "fetch" /\ export.i <= Len(services_cache)

\* C23: no task holds the guard of a mutex of AppState while it is inside
\* a call on the container runtime, so that the scanner never waits for
\* services_cache behind another task's runtime call.
C23_NoLockAcrossIO ==
    /\ \A t \in LockTasks : DoingIO(t) => Held(t) = {}
    /\ ~(scanner.pc = "lock_cache" /\ services_guard_held
            /\ DoingIO("export_llm_handler"))

(* ---------------------------------------------------------------------- *)
(* The entries of nodes_cache (checked under NodeSpec)                     *)
(* ---------------------------------------------------------------------- *)

\* NODE_NAME as AppConfig::load and main keep it
ConfiguredNodeName == to_uppercase(EnvNodeName)

ForwardedChunks == SelectSeq(log_socket.forwarded, LAMBDA m : m # ErrorText)

\* C25: the chunks the client got are the first messages the stream
\* yielded, converted, in stream order and none left out while the
\* connection is sound; once the stream has yielded an error or a send has
\* failed the forwarder is closed or, after an error of the stream, about
\* to send the error text and close; a closed forwarder does nothing, and
\* no chunk is forwarded after either event.
C25_LogForwarderStopsAtFirstFailure ==
    /\ [](/\ \E n \in 0..Len(log_socket.yielded) :
                /\ \A i \in 1..n : log_socket.yielded[i].ok
                /\ ForwardedChunks =
                     [i \in 1..n |->
                        from_utf8_lossy(log_socket.yielded[i].message)]
                /\ log_socket.why = "none" /\ log_socket.pc = "next" =>
                        n = Len(log_socket.yielded)
          /\ \A i \in 1..Len(log_socket.forwarded) :
                log_socket.forwarded[i] = ErrorText =>
                    /\ i = Len(log_socket.forwarded)
                    /\ log_socket.why = "stream_error"
          /\ log_socket.why = "send_error" => log_socket.pc = "closed"
          /\ log_socket.why = "stream_error" =>
                log_socket.pc \in {"send_error", "closed"}
          /\ log_socket.why = "stream_end" => log_socket.pc = "closed")
    /\ [][/\ log_socket.pc = "closed" /\ log_socket' # log_socket =>
                last'.task = "ws_logs_handler"
          /\ log_socket.why # "none" /\ last'.task # "ws_logs_handler" =>
                /\ log_socket'.yielded = log_socket.yielded
                /\ log_socket'.pc = "closed"
                /\ \/ log_socket'.forwarded = log_socket.forwarded
                   \/ log_socket'.forwarded =
                        Append(log_socket.forwarded, ErrorText)
         ]_vars

\* C25, its case: a send has failed after a chunk with an invalid byte was
\* forwarded, and the forwarder is closed with the last chunk not sent
C25_Witness ==
    /\ log_socket.pc = "closed"
    /\ log_socket.why = "send_error"
    /\ Len(log_socket.forwarded) = 2
    /\ Len(log_socket.yielded) = 3
    /\ \E i \in 1..2 : \E j \in 1..Len(log_socket.forwarded[i]) :
            log_socket.forwarded[i][j] = REPLACEMENT_CHARACTER

\* C26: every entry of nodes_cache is stored under the key that is the
\* name field of the entry.
C26_KeyIsName ==
    \A k \in DOMAIN nodes_cache :
        nodes_cache[k] # NoNode => nodes_cache[k].name = k

\* C26, its case: the cache holds the entry the monitor wrote and the entry
\* of a remote node, just inserted from a report whose name is not in
\* upper case
C26_Witness ==
    /\ last.task = "report"
    /\ last.info.node_name # to_uppercase(last.info.node_name)
    /\ nodes_cache[node_name] # NoNode
    /\ \E k \in NodeKeys \ {node_name} :
            nodes_cache[k] # NoNode /\ tx_sent = <<node_update(nodes_cache[k])>>

\* C27: with the clock never going back, the last_seen of every OFFLINE
\* entry is more than 30 seconds old; a watchdog tick turns no entry from
\* OFFLINE to ONLINE, and an entry that turns ONLINE does so by a write of
\* the monitor or of report_node_status, which stores the status ONLINE.
C27_OfflineMeansStale ==
    /\ [](\A k \in NodeKeys :
            nodes_cache[k] # NoNode /\ nodes_cache[k].status = "OFFLINE" =>
                Age(nodes_cache[k], now) > OfflineAfterSecs * 1000)
    /\ [][/\ now' >= now
          /\ last'.task = "watchdog" => \A f \in last'.flips : f.to = "OFFLINE"
          /\ \A f \in last'.flips :
                f.to = "ONLINE" => last'.task \in {"monitor", "report"}
          /\ last'.task \in {"monitor", "report"} =>
                \A k \in NodeKeys :
                    nodes_cache'[k] # nodes_cache[k] =>
                        nodes_cache'[k].status = "ONLINE"
         ]_vars

\* C27, its case: a watchdog tick has passed over an entry that an
\* earlier tick had set OFFLINE and has left it OFFLINE, beside an entry
\* that is ONLINE
C27_Witness ==
    /\ last.task = "watchdog"
    /\ last.flips = {}
    /\ \E k \in NodeKeys :
            nodes_cache[k] # NoNode /\ nodes_cache[k].status = "OFFLINE"
    /\ \E k \in NodeKeys :
            nodes_cache[k] # NoNode /\ nodes_cache[k].status = "ONLINE"

\* C28: a watchdog tick that changes the status of an entry publishes one
\* nodes_list_update, carrying every entry of the cache as it is after the
\* tick; a tick that changes no status changes nothing and publishes
\* nothing.
C28_WatchdogPublishesIffChanged ==
    [][last'.task = "watchdog" =>
        IF last'.flips # {}
        THEN tx_sent' = <<nodes_list_update(values(nodes_cache'))>>
        ELSE tx_sent' = <<>> /\ nodes_cache' = nodes_cache
     ]_vars

\* C28, its case: a tick has set one entry OFFLINE and has published the
\* list of both entries, the other one unchanged
C28_Witness ==
    /\ last.task = "watchdog"
    /\ Cardinality(last.flips) = 1
    /\ Cardinality(values(nodes_cache)) = 2
    /\ \E n \in values(nodes_cache) : n.status = "ONLINE"
    /\ tx_sent = <<nodes_list_update(values(nodes_cache))>>

\* the pairs (t, u) where t is at the lock of a mutex whose guard u holds
WaitsFor ==
    {w \in LockTasks \X LockTasks :
        w[1] # w[2] /\ Acquiring(w[1]) \cap Held(w[2]) # {}}

\* C29: no two tasks wait for each other's guard, and a task that waits
\* has a holder ahead of it that is at no lock itself; with the holders
\* scheduled, the scanner gets the services_cache it waits for, and each
\* of auto_pilot_config and services_cache is free again and again, for
\* the handlers that lock it.
C29_NoDeadlock ==
    /\ [](\A w \in WaitsFor : <<w[2], w[1]>> \notin WaitsFor
                                /\ Acquiring(w[2]) = {})
    /\ (scanner.pc = "lock_cache" ~> scanner.pc = "send")
    /\ []<>(~ap_guard_held)
    /\ []<>(~services_guard_held)

\* C29, its case: the scanner, holding its auto_pilot_config guard, waits
\* for services_cache behind export_llm_handler, which is fetching logs
C29_Witness ==
    /\ <<"scanner", "export_llm_handler">> \in WaitsFor
    /\ ap_guard_held
    /\ DoingIO("export_llm_handler")

\* C30: the services a scan stores carry, each for its name, the value the
\* Auto-Pilot Map has at that scan (false where it has none); from the
\* scan's reading of the map to the end of its tick the map does not
\* change, no toggle completing in between, so that a toggle that has
\* completed is in the map every later scan reads and stores from.
C30_ScanReadsOneSnapshot ==
    [][/\ last'.task = "scanner_store" =>
            /\ services_cache' = scanner.services
            /\ \A i \in 1..Len(services_cache') :
                  services_cache'[i].auto_pilot =
                      ap_get(auto_pilot_config', services_cache'[i].name)
       /\ scanner.pc \in {"lock_cache", "send"} =>
            auto_pilot_config' = auto_pilot_config
       /\ last'.task \in ToggleTasks =>
            /\ scanner.pc \in {"tick", "lock_ap"}
            /\ ap_get(auto_pilot_config', last'.info.service)
                  = last'.info.enabled
      ]_vars

\* C30, its case: a scan stores a service with auto_pilot true that the scan
\* before stored with false, a toggle having completed between the two
C30_Witness ==
    /\ last.task = "scanner_store"
    /\ \E i \in 1..Len(services_cache), j \in 1..Len(last.info.prev) :
          /\ services_cache[i].name = last.info.prev[j].name
          /\ services_cache[i].auto_pilot
          /\ ~last.info.prev[j].auto_pilot
          /\ ap_get(auto_pilot_config, services_cache[i].name)

====
